---- MODULE Spec2Model ----
(***************************************************************************)
(* Model of pysal/cg/locators.py: the IntervalTree (static interval tree   *)
(* built from a batch of (lower, upper, payload) triples) and the Grid     *)
(* (bucket grid over 2-D points).  Numbers are modelled as integers with   *)
(* exact arithmetic; a quotient a/b is rounded the way the code rounds it  *)
(* (math.ceil, int()).                                                     *)
(***************************************************************************)
EXTENDS Integers, Sequences, FiniteSets, TLC

VARIABLES batch, root, terr, tq, grid, hash, gerr, glast, undo, gq

vars == <<batch, root, terr, tq, grid, hash, gerr, glast, undo, gq>>
tvars == <<batch, root, terr, tq>>
gvars == <<grid, hash, gerr, glast, undo, gq>>

(***************************************************************************)
(* Bounds of the interval-tree inputs.                                     *)
(***************************************************************************)
MaxEnd == 2
MaxBatch == 2

EndVals == 0..MaxEnd
QueryVals == (0 - 1)..(MaxEnd + 1)

\* The k-th interval of a batch carries payload k, so that a payload
\* identifies its interval.
RECURSIVE BatchesOfLen(_)
BatchesOfLen(n) ==
    IF n = 0 THEN {<<>>}
    ELSE {Append(b, <<lo, hi, n>>) : b \in BatchesOfLen(n - 1), lo \in EndVals, hi \in EndVals}

Batches == UNION {BatchesOfLen(n) : n \in 0..MaxBatch}

(***************************************************************************)
(* Python list helpers.                                                    *)
(***************************************************************************)
None == [kind |-> "None"]

\* list(set(...)); .sort() : the distinct values of a set in ascending order
RECURSIVE SortedList(_)
SortedList(S) ==
    IF S = {} THEN <<>>
    ELSE LET m == CHOOSE x \in S : \A y \in S : x <= y
         IN  <<m>> \o SortedList(S \ {m})

Endpoints(intervals) ==
    SortedList({intervals[k][1] : k \in DOMAIN intervals} \cup
               {intervals[k][2] : k \in DOMAIN intervals})

\* sign(a[0] - b[0]) orders by lower bound ascending, sign(b[1] - a[1]) by
\* upper bound descending; list.sort is stable.
SortKey(side, i) == IF side = "left" THEN i[1] ELSE 0 - i[2]

RECURSIVE InsertStable(_, _, _)
InsertStable(side, sorted, x) ==
    IF sorted = <<>> THEN <<x>>
    ELSE IF SortKey(side, Head(sorted)) <= SortKey(side, x)
         THEN <<Head(sorted)>> \o InsertStable(side, Tail(sorted), x)
         ELSE <<x>> \o sorted

RECURSIVE StableSort(_, _)
StableSort(side, s) ==
    IF s = <<>> THEN <<>>
    ELSE InsertStable(side, StableSort(side, SubSeq(s, 1, Len(s) - 1)), s[Len(s)])

\* binary_search(list, q): number of elements of the sorted list below q
RECURSIVE BinarySearchLoop(_, _, _, _)
BinarySearchLoop(list, q, l, r) ==
    IF l < r
    THEN LET m == (l + r) \div 2
         IN  IF list[m + 1] < q
             THEN BinarySearchLoop(list, q, m + 1, r)
             ELSE BinarySearchLoop(list, q, l, m)
    ELSE l

binary_search(list, q) == BinarySearchLoop(list, q, 0, Len(list))

(***************************************************************************)
(* IntervalTree._recursive_build                                           *)
(***************************************************************************)
Hits(intervals, median) ==
    SelectSeq(intervals, LAMBDA i : i[1] <= median /\ median <= i[2])

Rems(intervals, median) ==
    SelectSeq(intervals, LAMBDA i : ~(i[1] <= median /\ median <= i[2]))

RECURSIVE recursive_build(_, _)
recursive_build(intervals, eps) ==
    IF eps = <<>> THEN None
    ELSE LET median == eps[(Len(eps) \div 2) + 1]
             hit_is == Hits(intervals, median)
             rem_is == Rems(intervals, median)
             eps2 == Endpoints(intervals)
             bp == binary_search(eps2, median)
             left_eps == SubSeq(eps2, 1, bp)
             right_eps == SubSeq(eps2, bp + 1, Len(eps2))
         IN  [kind |-> "Node",
              val |-> median,
              left_list |-> StableSort("left", hit_is),
              right_list |-> StableSort("right", hit_is),
              left_node |-> recursive_build(rem_is, left_eps),
              right_node |-> recursive_build(rem_is, right_eps)]

\* faulty variant: the lower bound is compared with the wrong field of the triple
BadIntervalsWrongField(intervals) == SelectSeq(intervals, LAMBDA i : i[1] > i[3])

\* bad_is = filter(lambda i: i[0] > i[1], intervals)
BadIntervals(intervals) == SelectSeq(intervals, LAMBDA i : i[1] > i[2])

(***************************************************************************)
(* IntervalTree.Node.query, IntervalTree._query_range, _query_points       *)
(***************************************************************************)
\* faulty variant: the scan of left_list stops at a lower bound equal to q
RECURSIVE ScanLeftStrict(_, _, _)
ScanLeftStrict(list, q, i) ==
    IF i < Len(list) /\ list[i + 1][1] < q THEN ScanLeftStrict(list, q, i + 1) ELSE i

\* while i < len(list) and list[i][0] <= q : i += 1
RECURSIVE ScanLeft(_, _, _)
ScanLeft(list, q, i) ==
    IF i < Len(list) /\ list[i + 1][1] <= q THEN ScanLeft(list, q, i + 1) ELSE i

\* while i < len(list) and list[i][1] >= q : i += 1
RECURSIVE ScanRight(_, _, _)
ScanRight(list, q, i) ==
    IF i < Len(list) /\ list[i + 1][2] >= q THEN ScanRight(list, q, i + 1) ELSE i

Payloads(list) == [k \in DOMAIN list |-> list[k][3]]

NodeQuery(node, q) ==
    IF q < node.val
    THEN Payloads(SubSeq(node.left_list, 1, ScanLeft(node.left_list, q, 0)))
    ELSE Payloads(SubSeq(node.right_list, 1, ScanRight(node.right_list, q, 0)))

\* faulty variant: a node whose value lies left of the range does not report its own
\* intervals
RECURSIVE query_range_skip_node(_, _, _)
query_range_skip_node(lo, hi, node) ==
    IF node.kind = "None" THEN <<>>
    ELSE IF node.val < lo
         THEN query_range_skip_node(lo, hi, node.right_node)
         ELSE IF node.val > hi
              THEN query_range_skip_node(lo, hi, node.left_node) \o NodeQuery(node, hi)
              ELSE NodeQuery(node, node.val)
                   \o query_range_skip_node(lo, hi, node.left_node)
                   \o query_range_skip_node(lo, hi, node.right_node)

RECURSIVE query_range(_, _, _)
query_range(lo, hi, node) ==
    IF node.kind = "None" THEN <<>>
    ELSE IF node.val < lo
         THEN query_range(lo, hi, node.right_node) \o NodeQuery(node, lo)
         ELSE IF node.val > hi
              THEN query_range(lo, hi, node.left_node) \o NodeQuery(node, hi)
              ELSE NodeQuery(node, node.val)
                   \o query_range(lo, hi, node.left_node)
                   \o query_range(lo, hi, node.right_node)

RECURSIVE query_points(_, _)
query_points(q, cur) ==
    IF cur.kind = "None" THEN <<>>
    ELSE NodeQuery(cur, q)
         \o query_points(q, IF q < cur.val THEN cur.left_node ELSE cur.right_node)

(***************************************************************************)
(* Grid: inputs.  Coordinates, resolutions and radii are integers; the     *)
(* quotients the code forms are rounded as math.ceil and int() round the   *)
(* exact quotient (the Point and Rectangle coordinates are floats).        *)
(***************************************************************************)
MaxStored == 3
MaxQueryStored == 2
MaxRadius == 2
MaxDoublings == 4

Items == {1, 2}
Xs == 0..4
Ys == 0..3
Lattice == Xs \X Ys
GridRect == [left |-> 1, lower |-> 1, right |-> 3, upper |-> 2]
ResVals == {0 - 1, 0, 1, 2}
\* locations handed to add and remove: four inside the rectangle (all on
\* its boundary) and one beyond each side
OpPts == {<<1, 1>>, <<2, 1>>, <<2, 2>>, <<3, 2>>, <<0, 1>>, <<4, 2>>, <<2, 0>>, <<2, 3>>}
\* rectangles handed to bounds: (left, right) and (lower, upper) pairs
QueryXs == {<<0, 0>>, <<0, 1>>, <<0, 4>>, <<1, 1>>, <<1, 2>>, <<1, 3>>, <<2, 2>>,
            <<2, 4>>, <<3, 3>>, <<3, 4>>}
QueryYs == {<<0, 1>>, <<1, 2>>, <<2, 3>>}
QueryRects ==
    {[left |-> x[1], lower |-> y[1], right |-> x[2], upper |-> y[2]] :
        x \in QueryXs, y \in QueryYs}
\* centres handed to proximity, with radii 0..MaxRadius
ProxPts == {p \in Lattice : (p[1] + p[2]) % 2 = 0}

Min(a, b) == IF a < b THEN a ELSE b
Max(a, b) == IF a > b THEN a ELSE b
Abs(a) == IF a < 0 THEN 0 - a ELSE a

\* int(math.ceil(a / b)) for b # 0
CeilDiv(a, b) ==
    LET n == IF b < 0 THEN 0 - a ELSE a
        d == Abs(b)
    IN  0 - ((0 - n) \div d)

\* int(a / b) for b # 0: the quotient truncated towards zero
TruncDiv(a, b) ==
    LET n == IF b < 0 THEN 0 - a ELSE a
        d == Abs(b)
    IN  IF n >= 0 THEN n \div d ELSE 0 - ((0 - n) \div d)

\* get_points_dist(p, q), squared
Dist2(p, q) == (p[1] - q[1]) * (p[1] - q[1]) + (p[2] - q[2]) * (p[2] - q[2])

\* get_points_dist(p, q) <= r
DistLE(p, q, r) == r >= 0 /\ Dist2(p, q) <= r * r

\* get_points_dist(p, q) > r
DistGT(p, q, r) == r < 0 \/ Dist2(p, q) > r * r

(***************************************************************************)
(* Grid: helpers of the methods.                                           *)
(***************************************************************************)
NoGrid == [state |-> "none", res |-> 0, x_range |-> <<0, 0>>, y_range |-> <<0, 0>>,
           i_range |-> 0, j_range |-> 0]

EmptyHash == [c \in {} |-> <<>>]

\* faulty variant: the right and upper edges of the rectangle are excluded
in_grid_open(loc) ==
    /\ grid.x_range[1] <= loc[1] /\ loc[1] < grid.x_range[2]
    /\ grid.y_range[1] <= loc[2] /\ loc[2] < grid.y_range[2]

in_grid(loc) ==
    /\ grid.x_range[1] <= loc[1] /\ loc[1] <= grid.x_range[2]
    /\ grid.y_range[1] <= loc[2] /\ loc[2] <= grid.y_range[2]

\* faulty variant: the cell is counted from the origin instead of the
\* lower-left corner of the rectangle
grid_loc_from_origin(loc) ==
    <<Min(grid.i_range, Max(TruncDiv(loc[1], grid.res), 0)),
      Min(grid.j_range, Max(TruncDiv(loc[2], grid.res), 0))>>

grid_loc(loc) ==
    <<Min(grid.i_range, Max(TruncDiv(loc[1] - grid.x_range[1], grid.res), 0)),
      Min(grid.j_range, Max(TruncDiv(loc[2] - grid.y_range[1], grid.res), 0))>>

RECURSIVE SumLen(_, _)
SumLen(h, cells) ==
    IF cells = {} THEN 0
    ELSE LET c == CHOOSE x \in cells : TRUE
         IN  Len(h[c]) + SumLen(h, cells \ {c})

Stored(h) == SumLen(h, DOMAIN h)

\* self.hash[grid_loc].append((pt, item)), or a new one-element bucket
AddHash(h, item, pt) ==
    LET c == grid_loc(pt)
    IN  IF c \in DOMAIN h
        THEN [h EXCEPT ![c] = Append(@, <<pt, item>>)]
        ELSE [k \in DOMAIN h \cup {c} |-> IF k = c THEN <<<<pt, item>>>> ELSE h[k]]

\* index of the first element of the list equal to x, 0 when there is none
RECURSIVE IndexOf(_, _, _)
IndexOf(list, x, k) ==
    IF k > Len(list) THEN 0
    ELSE IF list[k] = x THEN k ELSE IndexOf(list, x, k + 1)

\* list.remove(x): the list without the first element equal to x
ListRemove(list, x) ==
    LET k == IndexOf(list, x, 1)
    IN  SubSeq(list, 1, k - 1) \o SubSeq(list, k + 1, Len(list))

\* faulty variant: the bucket is kept when its last pair is removed
RemoveHashKeepEmpty(h, item, pt) ==
    LET c == grid_loc(pt)
    IN  [h EXCEPT ![c] = ListRemove(h[c], <<pt, item>>)]

\* self.hash[grid_loc].remove((pt, item)); del self.hash[grid_loc] when empty
RemoveHash(h, item, pt) ==
    LET c == grid_loc(pt)
        rest == ListRemove(h[c], <<pt, item>>)
    IN  IF rest = <<>>
        THEN [k \in DOMAIN h \ {c} |-> h[k]]
        ELSE [h EXCEPT ![c] = rest]

\* the (pt, item) pairs of the buckets visited by
\*   for i in xrange(ll[0], ur[0] + 1): for j in xrange(ll[1], ur[1] + 1):
\*       if (i, j) in self.hash: ... self.hash[(i, j)]
\* in visiting order, from cell (i, j) on
RECURSIVE ScanFrom(_, _, _, _, _)
ScanFrom(h, i, j, ll, ur) ==
    IF i > ur[1] THEN <<>>
    ELSE IF j > ur[2] THEN ScanFrom(h, i + 1, ll[2], ll, ur)
         ELSE (IF <<i, j>> \in DOMAIN h THEN h[<<i, j>>] ELSE <<>>)
              \o ScanFrom(h, i, j + 1, ll, ur)

ScanCells(h, ll, ur) == ScanFrom(h, ll[1], ll[2], ll, ur)

ItemsOf(pairs) == [k \in DOMAIN pairs |-> pairs[k][2]]

\* faulty variant: the cell loops stop one short (xrange without the + 1)
bounds_short(h, rect) ==
    LET lower_left == grid_loc(<<rect.left, rect.lower>>)
        upper_right == grid_loc(<<rect.right, rect.upper>>)
        found == SelectSeq(ScanCells(h, lower_left, <<upper_right[1] - 1, upper_right[2] - 1>>),
                           LAMBDA e : /\ rect.left <= e[1][1] /\ e[1][1] <= rect.right
                                      /\ rect.lower <= e[1][2] /\ e[1][2] <= rect.upper)
    IN  ItemsOf(found)

\* Grid.bounds(Rectangle)
bounds(h, rect) ==
    LET lower_left == grid_loc(<<rect.left, rect.lower>>)
        upper_right == grid_loc(<<rect.right, rect.upper>>)
        found == SelectSeq(ScanCells(h, lower_left, upper_right),
                           LAMBDA e : /\ rect.left <= e[1][1] /\ e[1][1] <= rect.right
                                      /\ rect.lower <= e[1][2] /\ e[1][2] <= rect.upper)
    IN  ItemsOf(found)

\* faulty variant: the lower-left corner of the search box is the centre itself
proximity_half(h, pt, r) ==
    LET lower_left == grid_loc(<<pt[1], pt[2]>>)
        upper_right == grid_loc(<<pt[1] + r, pt[2] + r>>)
        found == SelectSeq(ScanCells(h, lower_left, upper_right),
                           LAMBDA e : DistLE(pt, e[1], r))
    IN  ItemsOf(found)

\* Grid.proximity(pt, r)
proximity(h, pt, r) ==
    LET lower_left == grid_loc(<<pt[1] - r, pt[2] - r>>)
        upper_right == grid_loc(<<pt[1] + r, pt[2] + r>>)
        found == SelectSeq(ScanCells(h, lower_left, upper_right),
                           LAMBDA e : DistLE(pt, e[1], r))
    IN  ItemsOf(found)

\* min(items) over (distance, item) tuples
MinPair(pt, pairs) ==
    LET Less(a, b) == \/ Dist2(pt, a[1]) < Dist2(pt, b[1])
                      \/ Dist2(pt, a[1]) = Dist2(pt, b[1]) /\ a[2] <= b[2]
        k == CHOOSE i \in DOMAIN pairs : \A j \in DOMAIN pairs : Less(pairs[i], pairs[j])
    IN  pairs[k]

NoItem == 0

\* Grid.nearest after its loop: the scan with the search size the loop ended
\* with; status "none" is a return of None
NearestScan(h, pt, search_size) ==
    LET lower_left == grid_loc(<<pt[1] - search_size, pt[2] - search_size>>)
        upper_right == grid_loc(<<pt[1] + search_size, pt[2] + search_size>>)
        items == ScanCells(h, lower_left, upper_right)
    IN  IF items = <<>> THEN [status |-> "none", item |-> NoItem]
        ELSE [status |-> "ok", item |-> MinPair(pt, items)[2]]

\* faulty variant: the loop goes on only while all four corners are out of reach
RECURSIVE SearchLoopAllCorners(_, _, _, _)
SearchLoopAllCorners(h, pt, search_size, n) ==
    IF /\ proximity(h, pt, search_size) = <<>>
       /\ DistGT(<<grid.x_range[1], grid.y_range[1]>>, pt, search_size)
       /\ DistGT(<<grid.x_range[2], grid.y_range[1]>>, pt, search_size)
       /\ DistGT(<<grid.x_range[1], grid.y_range[2]>>, pt, search_size)
       /\ DistGT(<<grid.x_range[2], grid.y_range[2]>>, pt, search_size)
    THEN IF n = MaxDoublings
         THEN [status |-> "diverged", item |-> NoItem]
         ELSE SearchLoopAllCorners(h, pt, 2 * search_size, n + 1)
    ELSE NearestScan(h, pt, search_size)

\* Grid.nearest from its while loop on; status "diverged" is a loop that has
\* not ended after MaxDoublings doublings
RECURSIVE SearchLoop(_, _, _, _)
SearchLoop(h, pt, search_size, n) ==
    IF /\ proximity(h, pt, search_size) = <<>>
       /\ \/ DistGT(<<grid.x_range[1], grid.y_range[1]>>, pt, search_size)
          \/ DistGT(<<grid.x_range[2], grid.y_range[1]>>, pt, search_size)
          \/ DistGT(<<grid.x_range[1], grid.y_range[2]>>, pt, search_size)
          \/ DistGT(<<grid.x_range[2], grid.y_range[2]>>, pt, search_size)
    THEN IF n = MaxDoublings
         THEN [status |-> "diverged", item |-> NoItem]
         ELSE SearchLoop(h, pt, 2 * search_size, n + 1)
    ELSE NearestScan(h, pt, search_size)

\* Grid.nearest(pt)
nearest(h, pt) == SearchLoop(h, pt, grid.res, 0)

(***************************************************************************)
(* Interval tree: state and operations.                                    *)
(*   batch : the list handed to IntervalTree(intervals)                    *)
(*   root  : self.root; Unbuilt while the attribute has not been assigned  *)
(*   terr  : outcome of the constructor                                    *)
(*   tq    : the last query and the list it returned                       *)
(***************************************************************************)
Unbuilt == [kind |-> "Unbuilt"]
NoQuery == [kind |-> "none", lo |-> 0, hi |-> 0, found |-> <<>>]

NoCall == [op |-> "none", item |-> NoItem, pt |-> <<0, 0>>]
NoUndo == [phase |-> "none", before |-> EmptyHash]
NoGridQuery == [kind |-> "none", pt |-> <<0, 0>>, r |-> 0, rect |-> GridRect,
                status |-> "none", found |-> <<>>]

InitTree ==
    /\ batch \in Batches
    /\ root = Unbuilt
    /\ terr = "pending"
    /\ tq = NoQuery
    /\ grid = NoGrid
    /\ hash = EmptyHash
    /\ gerr = "none"
    /\ glast = NoCall
    /\ undo = NoUndo
    /\ gq = NoGridQuery

\* IntervalTree.__init__ -> _build
Build ==
    /\ terr = "pending"
    /\ IF BadIntervals(batch) # <<>>
       THEN /\ terr' = "InvalidInterval"
            /\ root' = root
       ELSE /\ terr' = "ok"
            /\ root' = recursive_build(batch, Endpoints(batch))
    /\ UNCHANGED <<batch, tq, gvars>>

\* IntervalTree.query(q) with a number
QueryPoint ==
    /\ terr = "ok"
    /\ \E q \in QueryVals :
          tq' = [kind |-> "point", lo |-> q, hi |-> q, found |-> query_points(q, root)]
    /\ UNCHANGED <<batch, root, terr, gvars>>

\* IntervalTree.query(q) with a tuple (lo, hi)
QueryRange ==
    /\ terr = "ok"
    /\ \E lo \in QueryVals, hi \in QueryVals :
          /\ lo <= hi
          /\ tq' = [kind |-> "range", lo |-> lo, hi |-> hi,
                    found |-> query_range(lo, hi, root)]
    /\ UNCHANGED <<batch, root, terr, gvars>>

NextTree == Build \/ QueryPoint \/ QueryRange

SpecTree == InitTree /\ [][NextTree]_vars

(***************************************************************************)
(* Grid: state and operations.                                             *)
(*   grid  : the attributes set by Grid.__init__ (state "none" before it)  *)
(*   hash  : self.hash, cell -> list of (pt, item)                         *)
(*   gerr  : how the last call on the grid ended                           *)
(*   glast : the last add or remove call                                   *)
(*   undo  : phase "added" after a successful add, with the hash before    *)
(*           it; phase "removed" after the remove of the same item and     *)
(*           point that directly follows, still with the hash before the   *)
(*           add                                                           *)
(*   gq    : the last query and what it returned                           *)
(***************************************************************************)
InitGrid ==
    /\ batch = <<>>
    /\ root = Unbuilt
    /\ terr = "pending"
    /\ tq = NoQuery
    /\ grid = NoGrid
    /\ hash = EmptyHash
    /\ gerr = "none"
    /\ glast = NoCall
    /\ undo = NoUndo
    /\ gq = NoGridQuery

\* Grid.__init__(bounds, resolution)
GridInit ==
    /\ grid.state = "none"
    /\ gerr = "none"
    /\ \E res \in ResVals :
          IF res = 0
          THEN /\ gerr' = "InvalidResolution"
               /\ grid' = grid
          ELSE /\ gerr' = "ok"
               /\ grid' = [state |-> "ready",
                           res |-> res,
                           x_range |-> <<GridRect.left, GridRect.right>>,
                           y_range |-> <<GridRect.lower, GridRect.upper>>,
                           i_range |-> CeilDiv(GridRect.right - GridRect.left, res),
                           j_range |-> CeilDiv(GridRect.upper - GridRect.lower, res)]
    /\ UNCHANGED <<hash, glast, undo, gq, tvars>>

\* Grid.add(item, pt): what the call does to self.hash, and how it ends
AddCall(item, pt) ==
    IF ~in_grid(pt)
    THEN /\ gerr' = "OutOfBounds"
         /\ hash' = hash
    ELSE /\ gerr' = "ok"
         /\ hash' = AddHash(hash, item, pt)

\* Grid.remove(item, pt): what the call does to self.hash, and how it ends
\* (self.hash[grid_loc] raises KeyError, list.remove raises ValueError)
RemoveCall(item, pt) ==
    IF ~in_grid(pt)
    THEN /\ gerr' = "OutOfBounds"
         /\ hash' = hash
    ELSE IF grid_loc(pt) \notin DOMAIN hash
         THEN /\ gerr' = "KeyError"
              /\ hash' = hash
         ELSE IF IndexOf(hash[grid_loc(pt)], <<pt, item>>, 1) = 0
              THEN /\ gerr' = "ValueError"
                   /\ hash' = hash
              ELSE /\ gerr' = "ok"
                   /\ hash' = RemoveHash(hash, item, pt)

\* add, with the call and the hash before it recorded
Add ==
    /\ grid.state = "ready"
    /\ \E item \in Items, pt \in OpPts :
          /\ in_grid(pt) => Stored(hash) < MaxStored
          /\ AddCall(item, pt)
          /\ glast' = [op |-> "add", item |-> item, pt |-> pt]
          /\ undo' = [phase |-> IF gerr' = "ok" THEN "added" ELSE "failed", before |-> hash]
    /\ UNCHANGED <<grid, gq, tvars>>

\* remove, with the call recorded, and the hash before the add when that
\* add was the previous call and had the same arguments
Remove ==
    /\ grid.state = "ready"
    /\ \E item \in Items, pt \in OpPts :
          /\ RemoveCall(item, pt)
          /\ glast' = [op |-> "remove", item |-> item, pt |-> pt]
          /\ undo' = IF gerr' # "ok"
                     THEN [phase |-> "failed", before |-> hash]
                     ELSE IF /\ undo.phase = "added"
                             /\ glast = [op |-> "add", item |-> item, pt |-> pt]
                          THEN [phase |-> "removed", before |-> undo.before]
                          ELSE NoUndo
    /\ UNCHANGED <<grid, gq, tvars>>

\* add and remove between queries: no call history is kept
AddQ ==
    /\ grid.state = "ready"
    /\ \E item \in Items, pt \in OpPts :
          /\ in_grid(pt) => Stored(hash) < MaxQueryStored
          /\ AddCall(item, pt)
    /\ gq' = NoGridQuery
    /\ UNCHANGED <<grid, glast, undo, tvars>>

RemoveQ ==
    /\ grid.state = "ready"
    /\ \E item \in Items, pt \in OpPts : RemoveCall(item, pt)
    /\ gq' = NoGridQuery
    /\ UNCHANGED <<grid, glast, undo, tvars>>

\* Grid.bounds(rect)
Bounds ==
    /\ grid.state = "ready"
    /\ \E rect \in QueryRects :
          gq' = [kind |-> "bounds", pt |-> <<0, 0>>, r |-> 0, rect |-> rect,
                 status |-> "ok", found |-> bounds(hash, rect)]
    /\ gerr' = "ok"
    /\ UNCHANGED <<grid, hash, glast, undo, tvars>>

\* Grid.proximity(pt, r)
Proximity ==
    /\ grid.state = "ready"
    /\ \E pt \in ProxPts, r \in 0..MaxRadius :
          gq' = [kind |-> "proximity", pt |-> pt, r |-> r, rect |-> GridRect,
                 status |-> "ok", found |-> proximity(hash, pt, r)]
    /\ gerr' = "ok"
    /\ UNCHANGED <<grid, hash, glast, undo, tvars>>

\* Grid.nearest(pt)
Nearest ==
    /\ grid.state = "ready"
    /\ \E pt \in Lattice :
          \E res \in {nearest(hash, pt)} :
              gq' = [kind |-> "nearest", pt |-> pt, r |-> 0, rect |-> GridRect,
                     status |-> res.status,
                     found |-> IF res.status = "ok" THEN <<res.item>> ELSE <<>>]
    /\ gerr' = "ok"
    /\ UNCHANGED <<grid, hash, glast, undo, tvars>>

NextGrid == GridInit \/ Add \/ Remove

SpecGrid == InitGrid /\ [][NextGrid]_vars

NextBounds == GridInit \/ AddQ \/ RemoveQ \/ Bounds

SpecBounds == InitGrid /\ [][NextBounds]_vars

NextProximity == GridInit \/ AddQ \/ RemoveQ \/ Proximity

SpecProximity == InitGrid /\ [][NextProximity]_vars

NextNearest == GridInit \/ AddQ \/ RemoveQ \/ Nearest

SpecNearest == InitGrid /\ [][NextNearest]_vars

ToSet(s) == {s[k] : k \in DOMAIN s}

(***************************************************************************)
(* Grid: what is stored, for the statements below.                         *)
(***************************************************************************)
StoredPairs(h) == UNION {ToSet(h[c]) : c \in DOMAIN h}

\* the places <<cell, index>> of the stored pairs
Positions(h) == UNION {{<<c, k>> : k \in DOMAIN h[c]} : c \in DOMAIN h}

Count(list, x) == Cardinality({k \in DOMAIN list : list[k] = x})

InRect(rect, p) ==
    /\ rect.left <= p[1] /\ p[1] <= rect.right
    /\ rect.lower <= p[2] /\ p[2] <= rect.upper

\* C3: in a grid of positive resolution nearest ends, returns None when
\* nothing is stored and otherwise the item of a stored pair whose point is
\* as close to the query point as any stored point.
C3_NearestIsClosest ==
    (gq.kind = "nearest" /\ grid.res > 0) =>
        /\ gq.status # "diverged"
        /\ Stored(hash) = 0 => gq.status = "none"
        /\ Stored(hash) > 0 =>
              /\ gq.status = "ok"
              /\ \E e \in StoredPairs(hash) :
                    /\ e[2] = gq.found[1]
                    /\ \A f \in StoredPairs(hash) : Dist2(gq.pt, e[1]) <= Dist2(gq.pt, f[1])

C3_Witness ==
    /\ gq.kind = "nearest"
    /\ grid.res > 0
    /\ gq.status = "ok"
    /\ proximity(hash, gq.pt, grid.res) = <<>>
    /\ ~in_grid(gq.pt)
    /\ \E e \in StoredPairs(hash), f \in StoredPairs(hash) :
          Dist2(gq.pt, e[1]) < Dist2(gq.pt, f[1])

\* C4: bounds returns exactly the items of the stored pairs whose point
\* lies in the query rectangle, edges included, each as often as it is
\* stored there.
C4_BoundsExact ==
    gq.kind = "bounds" =>
        \A it \in Items :
            Count(gq.found, it) =
                Cardinality({p \in Positions(hash) :
                                /\ hash[p[1]][p[2]][2] = it
                                /\ InRect(gq.rect, hash[p[1]][p[2]][1])})

C4_Witness ==
    /\ gq.kind = "bounds"
    /\ grid.res = 2
    /\ gq.found # <<>>
    /\ gq.rect.right > grid.x_range[2]
    /\ gq.rect.lower < grid.y_range[1]
    /\ \E e \in StoredPairs(hash) : ~InRect(gq.rect, e[1])

\* C5: proximity returns exactly the items of the stored pairs whose point
\* is within distance r of the query point, each as often as it is stored
\* there.
C5_ProximityExact ==
    gq.kind = "proximity" =>
        \A it \in Items :
            Count(gq.found, it) =
                Cardinality({p \in Positions(hash) :
                                /\ hash[p[1]][p[2]][2] = it
                                /\ DistLE(gq.pt, hash[p[1]][p[2]][1], gq.r)})

C5_Witness ==
    /\ gq.kind = "proximity"
    /\ grid.res > 0
    /\ ~in_grid(gq.pt)
    /\ gq.found # <<>>
    /\ \E e \in StoredPairs(hash) : ~DistLE(gq.pt, e[1], gq.r)

\* C7: no grid has a resolution of zero or less: the constructor fails for
\* every such resolution.
C7_NonPositiveResolutionRejected ==
    grid.state = "ready" => grid.res > 0

\* C8: add and remove at a point outside the rectangle end with the
\* out-of-bounds error and leave the hash as it was; a point of the
\* rectangle, its boundary included, never ends with that error.
C8_OutOfBoundsRejected ==
    glast.op \in {"add", "remove"} =>
        /\ ~InRect(GridRect, glast.pt) =>
              (gerr = "OutOfBounds" /\ undo.phase = "failed" /\ hash = undo.before)
        /\ InRect(GridRect, glast.pt) => gerr # "OutOfBounds"

C8_Witness ==
    /\ glast.op = "remove"
    /\ ~InRect(GridRect, glast.pt)
    /\ gerr = "OutOfBounds"
    /\ Stored(hash) = MaxStored

\* C9 as stated: in a grid of positive resolution add(item, p) directly
\* followed by remove(item, p) leaves the hash identical to the hash before
\* the add.
C9_RoundTripIdentical ==
    (undo.phase = "removed" /\ grid.res > 0) => hash = undo.before

SameBuckets(h1, h2) ==
    /\ DOMAIN h1 = DOMAIN h2
    /\ \A c \in DOMAIN h1 :
          \A e \in ToSet(h1[c]) \cup ToSet(h2[c]) : Count(h1[c], e) = Count(h2[c], e)

SameItems(l1, l2) == \A it \in Items : Count(l1, it) = Count(l2, it)

BucketAt(h, pt) == IF grid_loc(pt) \in DOMAIN h THEN h[grid_loc(pt)] ELSE <<>>

\* C9 as amended: add(item, p) directly followed by remove(item, p) leaves
\* the same cells with the same pairs in each, in the same order unless an
\* equal pair was stored before the add; bounds and proximity return the
\* same items as before the add and nearest the same item.
C9_RoundTripUpToOrder ==
    undo.phase = "removed" =>
        \/ hash = undo.before
        \/ /\ Count(BucketAt(undo.before, glast.pt), <<glast.pt, glast.item>>) > 0
           /\ SameBuckets(hash, undo.before)
           /\ \A rect \in QueryRects :
                 SameItems(bounds(hash, rect), bounds(undo.before, rect))
           /\ \A pt \in ProxPts, r \in 0..MaxRadius :
                 SameItems(proximity(hash, pt, r), proximity(undo.before, pt, r))
           /\ \A pt \in Lattice : nearest(hash, pt) = nearest(undo.before, pt)

C9_Witness ==
    /\ undo.phase = "removed"
    /\ grid.res > 0
    /\ hash # undo.before
    /\ Count(BucketAt(undo.before, glast.pt), <<glast.pt, glast.item>>) = 1
    /\ Stored(hash) = 2

\* floor(a / b) for b # 0
FloorDiv(a, b) ==
    LET n == IF b < 0 THEN 0 - a ELSE a
        d == Abs(b)
    IN  n \div d

\* the cell of a point as the invariant words it: floor division by the
\* resolution relative to the lower-left corner, clamped to the cell ranges
ClampedCell(pt) ==
    <<Min(grid.i_range, Max(FloorDiv(pt[1] - GridRect.left, grid.res), 0)),
      Min(grid.j_range, Max(FloorDiv(pt[2] - GridRect.lower, grid.res), 0))>>

\* C11: after any sequence of successful and failing add and remove calls
\* every pair stored in the bucket keyed (i, j) has a point of the rectangle
\* whose clamped cell is (i, j), no bucket of the mapping is empty, and a
\* pair just added is in the bucket of its cell.
C11_BucketsMatchCells ==
    /\ \A c \in DOMAIN hash :
          /\ hash[c] # <<>>
          /\ \A k \in DOMAIN hash[c] :
                /\ InRect(GridRect, hash[c][k][1])
                /\ ClampedCell(hash[c][k][1]) = c
    /\ (glast.op = "add" /\ gerr = "ok") =>
          /\ ClampedCell(glast.pt) \in DOMAIN hash
          /\ <<glast.pt, glast.item>> \in ToSet(hash[ClampedCell(glast.pt)])

C11_Witness ==
    /\ glast.op = "remove"
    /\ gerr = "ok"
    /\ grid.res = 1
    /\ ClampedCell(glast.pt) \notin DOMAIN hash
    /\ Cardinality(DOMAIN hash) = 2
    /\ \E c \in DOMAIN hash : Len(hash[c]) = 1

RECURSIVE NodesHolding(_, _)
NodesHolding(node, payload) ==
    IF node.kind = "None" THEN 0
    ELSE (IF payload \in ToSet(Payloads(node.left_list)) THEN 1 ELSE 0)
         + NodesHolding(node.left_node, payload)
         + NodesHolding(node.right_node, payload)

Containing(q) == {batch[k][3] : k \in {j \in DOMAIN batch : batch[j][1] <= q /\ q <= batch[j][2]}}

Overlapping(lo, hi) ==
    {batch[k][3] : k \in {j \in DOMAIN batch : ~(batch[j][2] < lo \/ batch[j][1] > hi)}}

\* C1: a point query returns, as a set, exactly the payloads of the
\* intervals of the batch that contain the queried value.
C1_PointQueryExact ==
    tq.kind = "point" => ToSet(tq.found) = Containing(tq.lo)

C1_Witness ==
    /\ tq.kind = "point"
    /\ Len(batch) = MaxBatch
    /\ tq.found # <<>>
    /\ Cardinality(Containing(tq.lo)) < Len(batch)
    /\ NodeQuery(root, tq.lo) = <<>>

\* C2: a range query returns, as a set, exactly the payloads of the
\* intervals of the batch that overlap the queried range.
C2_RangeQueryExact ==
    tq.kind = "range" => ToSet(tq.found) = Overlapping(tq.lo, tq.hi)

C2_Witness ==
    /\ tq.kind = "range"
    /\ Len(batch) = MaxBatch
    /\ tq.lo < tq.hi
    /\ Cardinality(Overlapping(tq.lo, tq.hi)) = 2
    /\ root.val > tq.hi

\* C6: a batch with an interval whose lower bound exceeds its upper bound
\* fails the construction with the invalid-interval error and no root is
\* ever assigned; a tree exists only for batches without such an interval.
C6_InvalidBatchRejected ==
    /\ (terr # "pending" /\ \E k \in DOMAIN batch : batch[k][1] > batch[k][2])
          => (terr = "InvalidInterval" /\ root = Unbuilt /\ tq = NoQuery)
    /\ terr = "InvalidInterval" => \E k \in DOMAIN batch : batch[k][1] > batch[k][2]

C6_Witness ==
    /\ terr = "InvalidInterval"
    /\ \E k \in DOMAIN batch : batch[k][1] > batch[k][2]
    /\ \E k \in DOMAIN batch : batch[k][1] <= batch[k][2]
    /\ batch[1][1] <= batch[1][2]

\* C10: after a build every input interval is stored in exactly one node
\* of the tree.
C10_OneNodePerInterval ==
    terr = "ok" => \A k \in DOMAIN batch : NodesHolding(root, batch[k][3]) = 1

\* C12: for a batch without invalid intervals (payloads are pairwise
\* distinct) and a range lo <= hi the list returned by a range query holds
\* each payload at most once.
C12_RangeQueryNoDuplicates ==
    (tq.kind = "range" /\ tq.lo <= tq.hi) =>
        \A k \in DOMAIN batch : Count(tq.found, batch[k][3]) <= 1

====
